---- MODULE Spec2Model ----
(***************************************************************************)
(* Model of core/static/admin/dashboard.js: the dashboard theme toggle.    *)
(* A tab is one browser page that loads the script; all tabs share the     *)
(* localStorage of the origin.                                             *)
(***************************************************************************)
EXTENDS Integers, Sequences, FiniteSets, TLC

\* ------------------------------------------------------------------ bounds
\* number of apply() calls of the current page load kept in the history
WindowLen == 3
\* number of direct calls of apply() in a row
MaxCalls == 2

\* ------------------------------------------------------------- environment
Tabs == {"tabA", "tabB"}
MainTab == "tabA"

\* getItem's result for a key that is not stored
Null == "<null>"
\* data-theme of a body the script has not tagged yet
Unset == "<unset>"
\* content of an element as the page markup ships it / of an element the page lacks
Markup == "<markup>"
NoElement == "<none>"
\* what init read: the read threw / init has not read yet
Threw == "<threw>"
Unread == "<unread>"

\* what may be stored under the key when a page loads
StoredValues == {Null, "dark", "light", "", "Light", "blue"}
\* arguments apply() may be called with
ApplyInputs == StoredValues \ {Null}
\* arguments of the direct calls: the two variants and an unrecognized value
CallInputs == {"dark", "light", "blue"}
ReadyStates == {"loading", "interactive", "complete"}

\* ------------------------------------------------------- program constants
THEME_KEY == "taw_dash_theme"

\* the table with its two entries exchanged
THEMESSwapped == [dark  |-> "https://cdn.jsdelivr.net/npm/bootswatch@5.3.3/dist/lux/bootstrap.min.css",
                  light |-> "https://cdn.jsdelivr.net/npm/bootswatch@5.3.3/dist/darkly/bootstrap.min.css"]

THEMES == [dark  |-> "https://cdn.jsdelivr.net/npm/bootswatch@5.3.3/dist/darkly/bootstrap.min.css",
           light |-> "https://cdn.jsdelivr.net/npm/bootswatch@5.3.3/dist/lux/bootstrap.min.css"]

\* innerHTML written to the button: icon and label text
DarkLabel == "bi-moon-stars Dark"
LightLabel == "bi-sun Light"

\* tabs:          the page of each tab (DOM, script closure, history of apply calls)
\* localStorage:  the items of the origin's storage
\* storageFaults: whether getItem / setItem currently throw (storage disabled, quota)
\* lastWrite:     which tab and operation made the last successful setItem
VARIABLES tabs, localStorage, storageFaults, lastWrite

vars == <<tabs, localStorage, storageFaults, lastWrite>>

\* ------------------------------------------------------------ page of a tab
\* A page as the browser builds it from the markup, before the script runs.
FreshPage(hasLink, hasBtn) ==
  [pc         |-> "closed",
   readyState |-> "loading",
   hasLink    |-> hasLink,
   hasBtn     |-> hasBtn,
   link       |-> FALSE,
   btn        |-> FALSE,
   href       |-> IF hasLink THEN Markup ELSE NoElement,
   theme      |-> Unset,
   label      |-> IF hasBtn THEN Markup ELSE NoElement,
   listeners  |-> 0,
   dcl        |-> 0,
   initRuns   |-> 0,
   saved      |-> Unread,
   readFrom   |-> "none",
   wrote      |-> "none",
   error      |-> FALSE,
   lostClick  |-> FALSE,
   hist       |-> << >>]

\* Execution context of a handler running in tab p; exc is an exception in flight.
Ctx(p) ==
  [tab |-> p, pg |-> tabs[p], ls |-> localStorage, faults |-> storageFaults,
   lw |-> lastWrite, exc |-> FALSE]

\* A handler returns to the browser: an exception still in flight is reported.
Report(c) == [c EXCEPT !.pg.error = @ \/ c.exc, !.exc = FALSE]

Commit(p, c) ==
  /\ tabs' = [tabs EXCEPT ![p] = Report(c).pg]
  /\ localStorage' = c.ls
  /\ lastWrite' = c.lw
  /\ UNCHANGED storageFaults

\* ------------------------------------------------------------- the script
\* JavaScript truthiness of a getItem result
Truthy(v) == v # Null /\ v # ""

\* catch(e){} around the storage write: does a thrown exception leave the try?
WriteEscapesNoCatch(threw) == threw
WriteEscapes(threw) == FALSE

\* catch(e){} around the storage read
ReadEscapesNoCatch(threw) == threw
ReadEscapes(threw) == FALSE

\* a write that removes the item first and then fails
setItemRemovesFirst(c, key, t, op) ==
  IF c.faults.write
  THEN [c EXCEPT !.ls[key] = Null, !.pg.wrote = "threw", !.exc = WriteEscapes(TRUE)]
  ELSE [c EXCEPT !.ls[key] = t,
                 !.pg.wrote = "ok",
                 !.lw = [tab |-> c.tab, op |-> op]]

\* try{ localStorage.setItem(THEME_KEY, t); }catch(e){}
setItem(c, key, t, op) ==
  IF c.faults.write
  THEN [c EXCEPT !.pg.wrote = "threw", !.exc = WriteEscapes(TRUE)]
  ELSE [c EXCEPT !.ls[key] = t,
                 !.pg.wrote = "ok",
                 !.lw = [tab |-> c.tab, op |-> op]]

\* const t = theme === "light" ? "light" : "dark";
NormalizeLoose(theme) == IF theme = "dark" THEN "dark" ELSE "light"
Normalize(theme) == IF theme = "light" THEN "light" ELSE "dark"

\* btn.innerHTML = t === "light" ? ...Dark : ...Light
LabelForSame(t) == IF t = "light" THEN LightLabel ELSE DarkLabel
LabelFor(t) == IF t = "light" THEN DarkLabel ELSE LightLabel

\* history of the apply() calls of this page load (the last WindowLen of them)
Log(c, op, arg) ==
  LET e == [op |-> op, arg |-> arg, wrote |-> c.pg.wrote, theme |-> c.pg.theme,
            href |-> c.pg.href, label |-> c.pg.label, stored |-> c.ls[THEME_KEY],
            exc |-> c.exc]
      h == Append(c.pg.hist, e)
  IN [c EXCEPT !.pg.hist = IF Len(h) > WindowLen THEN Tail(h) ELSE h]

\* apply without the if(link) / if(btn) guards: a missing element throws
applyUnguarded(c, theme, op) ==
  LET t  == Normalize(theme)
      c1 == IF c.pg.link THEN [c EXCEPT !.pg.href = THEMES[t]] ELSE [c EXCEPT !.exc = TRUE]
      c2 == [c1 EXCEPT !.pg.theme = t]
      c3 == setItem(c2, THEME_KEY, t, op)
      c4 == IF c3.pg.btn THEN [c3 EXCEPT !.pg.label = LabelFor(t)] ELSE [c3 EXCEPT !.exc = TRUE]
  IN Log(IF c1.exc THEN c1 ELSE IF c3.exc THEN c3 ELSE c4, op, theme)

\* apply that persists before tagging, taking the value from the tag
applyStoresTag(c, theme, op) ==
  LET t  == Normalize(theme)
      c1 == IF c.pg.link THEN [c EXCEPT !.pg.href = THEMES[t]] ELSE c
      c2 == setItem(c1, THEME_KEY, c1.pg.theme, op)
      c3 == [c2 EXCEPT !.pg.theme = t]
      c4 == IF c3.pg.btn THEN [c3 EXCEPT !.pg.label = LabelFor(t)] ELSE c3
  IN Log(IF c2.exc THEN c2 ELSE c4, op, theme)

apply(c, theme, op) ==
  LET t  == Normalize(theme)
      c1 == IF c.pg.link THEN [c EXCEPT !.pg.href = THEMES[t]] ELSE c
      c2 == [c1 EXCEPT !.pg.theme = t]
      c3 == setItem(c2, THEME_KEY, t, op)
      c4 == IF c3.pg.btn THEN [c3 EXCEPT !.pg.label = LabelFor(t)] ELSE c3
  IN Log(IF c3.exc THEN c3 ELSE c4, op, theme)

\* cur === "dark" ? "light" : "dark"
FlipToLight(cur) == "light"
Flip(cur) == IF cur = "dark" THEN "light" ELSE "dark"

\* a listener that takes the current preference from storage instead of the tag
listenerFromStorage(c) ==
  LET cur == IF Truthy(c.ls[THEME_KEY]) THEN c.ls[THEME_KEY] ELSE "dark"
  IN apply(c, Flip(cur), "click")

\* the click listener registered by init
listener(c) ==
  LET cur == IF c.pg.theme = Unset THEN "dark" ELSE c.pg.theme
  IN apply(c, Flip(cur), "click")

\* let t = "dark"; try{ saved = getItem(KEY); if(saved) t = saved; }catch(e){}
savedThemeIgnored(c) == "dark"

savedTheme(c) ==
  IF c.faults.read THEN "dark"
  ELSE IF Truthy(c.ls[THEME_KEY]) THEN c.ls[THEME_KEY] ELSE "dark"

init(c) ==
  LET c0 == [c EXCEPT !.pg.initRuns = @ + 1,
                      !.pg.pc = "ready",
                      !.pg.saved = IF c.faults.read THEN Threw ELSE c.ls[THEME_KEY],
                      !.pg.readFrom = c.lw.op,
                      !.exc = ReadEscapes(c.faults.read)]
      c1 == apply(c0, savedTheme(c0), "init")
      c2 == IF c1.pg.btn THEN [c1 EXCEPT !.pg.listeners = @ + 1] ELSE c1
  IN IF c0.exc THEN c0 ELSE IF c1.exc THEN c1 ELSE c2

\* the bootstrap without its else: init is both deferred and run at once
scriptNoElse(c, readyState, linkParsed, btnParsed) ==
  LET c0 == [c EXCEPT !.pg.link = c.pg.hasLink /\ linkParsed,
                      !.pg.btn  = c.pg.hasBtn /\ btnParsed,
                      !.pg.readyState = readyState]
      c1 == IF readyState = "loading" THEN [c0 EXCEPT !.pg.dcl = @ + 1] ELSE c0
      c2 == init(c1)
  IN IF readyState = "loading" THEN [c2 EXCEPT !.pg.pc = "deferred"] ELSE c2

\* the body of the IIFE: look the elements up, then run or defer init
script(c, readyState, linkParsed, btnParsed) ==
  LET c0 == [c EXCEPT !.pg.link = c.pg.hasLink /\ linkParsed,
                      !.pg.btn  = c.pg.hasBtn /\ btnParsed,
                      !.pg.readyState = readyState]
  IN IF readyState = "loading"
     THEN [c0 EXCEPT !.pg.dcl = @ + 1, !.pg.pc = "deferred"]
     ELSE init(c0)

\* ---------------------------------------------------------------- actions
\* The page being left shows a preference that its last click could not persist.
LostClick(pg) ==
  /\ pg.hist # << >>
  /\ pg.hist[Len(pg.hist)].op = "click"
  /\ pg.hist[Len(pg.hist)].wrote = "threw"
  /\ pg.hist[Len(pg.hist)].theme # pg.hist[Len(pg.hist)].stored

\* The tab navigates to (or reloads) the dashboard and the script is evaluated.
\* While the document is loading, elements after the script tag are not parsed yet.
LoadPage(p) ==
  \E hasLink \in BOOLEAN, hasBtn \in BOOLEAN, readyState \in ReadyStates,
     linkParsed \in BOOLEAN, btnParsed \in BOOLEAN :
    /\ readyState # "loading" => linkParsed /\ btnParsed
    /\ LET c == [Ctx(p) EXCEPT !.pg = [FreshPage(hasLink, hasBtn) EXCEPT
                                          !.lostClick = LostClick(tabs[p])]]
       IN Commit(p, script(c, readyState, linkParsed, btnParsed))

\* The browser runs the n registered DOMContentLoaded listeners (each is init).
RECURSIVE RunInit(_, _)
RunInit(c, n) == IF n = 0 THEN c ELSE RunInit(Report(init(c)), n - 1)

\* The browser fires DOMContentLoaded, once, at a page that is waiting for it.
DOMContentLoaded(p) ==
  /\ tabs[p].pc = "deferred"
  /\ Commit(p, RunInit(Ctx(p), tabs[p].dcl))

\* The browser runs the n click listeners registered on the button.
RECURSIVE RunListeners(_, _)
RunListeners(c, n) == IF n = 0 THEN c ELSE RunListeners(Report(listener(c)), n - 1)

\* The user clicks the toggle button of a loaded page.
Click(p) ==
  /\ tabs[p].pc \in {"deferred", "ready"}
  /\ tabs[p].hasBtn
  /\ Commit(p, RunListeners(Ctx(p), tabs[p].listeners))

\* The storage starts or stops throwing (disabled by policy, quota reached or freed).
StorageChanges ==
  /\ \E f \in [read : BOOLEAN, write : BOOLEAN] :
       /\ f # storageFaults
       /\ storageFaults' = f
  /\ UNCHANGED <<tabs, localStorage, lastWrite>>

\* A direct call of apply with an arbitrary argument, on a page whose script ran.
CallApply(p) ==
  /\ tabs[p].pc \in {"deferred", "ready"}
  /\ Cardinality({i \in 1..Len(tabs[p].hist) : tabs[p].hist[i].op = "call"}) < MaxCalls
  /\ \E theme \in CallInputs : Commit(p, apply(Ctx(p), theme, "call"))

\* ----------------------------------------------------------- specification
Init ==
  /\ tabs = [p \in Tabs |-> FreshPage(FALSE, FALSE)]
  /\ localStorage \in [{THEME_KEY} -> StoredValues]
  /\ storageFaults \in [read : BOOLEAN, write : BOOLEAN]
  /\ lastWrite = [tab |-> "none", op |-> "none"]

Next ==
  \/ LoadPage(MainTab)
  \/ DOMContentLoaded(MainTab)
  \/ Click(MainTab)
  \/ StorageChanges

\* one page in the browser
Spec == Init /\ [][Next]_vars

NextApply ==
  \/ LoadPage(MainTab)
  \/ DOMContentLoaded(MainTab)
  \/ StorageChanges
  \/ CallApply(MainTab)

\* one page, with apply called directly instead of by clicks
SpecApply == Init /\ [][NextApply]_vars

\* The tab opens the dashboard as shipped, once: both elements in the markup,
\* the script evaluated after them.
OpenDashboard(p) ==
  /\ tabs[p].pc = "closed"
  /\ \E readyState \in {"loading", "complete"} :
       LET c == [Ctx(p) EXCEPT !.pg = FreshPage(TRUE, TRUE)]
       IN Commit(p, script(c, readyState, TRUE, TRUE))

\* A click in a tab whose history still has room.
ClickInTab(p) ==
  /\ Len(tabs[p].hist) < WindowLen
  /\ Click(p)

NextTabs ==
  \/ \E p \in Tabs : OpenDashboard(p)
  \/ \E p \in Tabs : DOMContentLoaded(p)
  \/ \E p \in Tabs : ClickInTab(p)
  \/ StorageChanges

\* two pages of the same origin, their handlers interleaved
SpecTabs == Init /\ [][NextTabs]_vars

\* ------------------------------------------------------------- properties
Hist(p) == tabs[p].hist
Stored == localStorage[THEME_KEY]

\* the label names the variant that is not applied
LabelNamesOther(theme, label) ==
  /\ theme = "dark" => label = LightLabel
  /\ theme = "light" => label = DarkLabel

\* C1 as stated: in every state after init() has completed, the persisted
\* preference equals the applied preference and the label of the toggle control
\* names the other variant.
C1_AsStated ==
  \A p \in Tabs : tabs[p].pc = "ready" =>
    /\ Stored = tabs[p].theme
    /\ tabs[p].btn => LabelNamesOther(tabs[p].theme, tabs[p].label)

\* C1 amended: in every state after init() has completed, the applied preference
\* is dark or light, the label of the toggle control names the other variant, and
\* the persisted preference equals the applied one whenever the page's most recent
\* storage write succeeded; a write that threw left the persisted value as it was.
C1_Consistent ==
  \A p \in Tabs : tabs[p].pc = "ready" =>
    /\ tabs[p].theme \in {"dark", "light"}
    /\ tabs[p].btn => LabelNamesOther(tabs[p].theme, tabs[p].label)
    /\ tabs[p].wrote = "ok" => Stored = tabs[p].theme
    /\ \A i \in 2..Len(Hist(p)) :
         Hist(p)[i].wrote = "threw" => Hist(p)[i].stored = Hist(p)[i-1].stored

C1_Witness ==
  /\ tabs[MainTab].pc = "ready"
  /\ Len(Hist(MainTab)) >= 2
  /\ tabs[MainTab].wrote = "ok"
  /\ tabs[MainTab].theme = "light"
  /\ Stored = "light"
  /\ tabs[MainTab].label = DarkLabel

\* Two successive clicks handled after the state recorded at position i.
TwoClicksFromDark(p, i) ==
  /\ i + 2 <= Len(Hist(p))
  /\ Hist(p)[i].theme = "dark"
  /\ Hist(p)[i+1].op = "click"
  /\ Hist(p)[i+2].op = "click"

\* C2 as stated: from applied dark, one click yields applied light, persisted
\* light and the label offering dark; a second click returns all three to their
\* dark-active values.
C2_AsStated ==
  \A p \in Tabs : \A i \in 1..Len(Hist(p)) : TwoClicksFromDark(p, i) =>
    /\ Hist(p)[i+1].theme = "light"
    /\ Hist(p)[i+1].stored = "light"
    /\ Hist(p)[i+1].label = DarkLabel
    /\ Hist(p)[i+2].theme = "dark"
    /\ Hist(p)[i+2].stored = "dark"
    /\ Hist(p)[i+2].label = LightLabel

\* C2 amended: from applied dark, one click yields applied light and the label
\* offering dark, a second click returns the applied preference and the label to
\* their dark-active values; each click persists the preference it applied when
\* its storage write succeeds and leaves the persisted value alone when it throws.
C2_Toggle ==
  \A p \in Tabs : \A i \in 1..Len(Hist(p)) : TwoClicksFromDark(p, i) =>
    /\ Hist(p)[i+1].theme = "light"
    /\ Hist(p)[i+1].label = DarkLabel
    /\ Hist(p)[i+1].wrote = "ok" => Hist(p)[i+1].stored = "light"
    /\ Hist(p)[i+1].wrote = "threw" => Hist(p)[i+1].stored = Hist(p)[i].stored
    /\ Hist(p)[i+2].theme = "dark"
    /\ Hist(p)[i+2].label = LightLabel
    /\ Hist(p)[i+2].label = Hist(p)[i].label
    /\ Hist(p)[i+2].wrote = "ok" => Hist(p)[i+2].stored = "dark"
    /\ Hist(p)[i+2].wrote = "threw" => Hist(p)[i+2].stored = Hist(p)[i+1].stored

C2_Witness ==
  /\ TwoClicksFromDark(MainTab, 1)
  /\ Hist(MainTab)[1].op = "init"
  /\ Hist(MainTab)[2].stored = "light"
  /\ tabs[MainTab].theme = "dark"
  /\ Stored = "dark"
  /\ tabs[MainTab].label = LightLabel

\* C3: after init, every click on the toggle control the script holds changes
\* the applied preference to the other variant; the applied preference changes
\* in no step other than a click or the init of a page load; and the listener
\* stays registered on the control, so the next click flips again.
C3_Step(p) ==
  /\ (Click(p) /\ tabs[p].pc = "ready" /\ tabs[p].btn) =>
       /\ tabs[p].theme = "dark" => tabs'[p].theme = "light"
       /\ tabs[p].theme = "light" => tabs'[p].theme = "dark"
       /\ tabs'[p].pc = "ready" /\ tabs'[p].btn /\ tabs'[p].hasBtn
       /\ tabs'[p].listeners = 1
  /\ tabs'[p].theme # tabs[p].theme =>
       \/ Click(p) /\ tabs[p].pc = "ready"
       \/ tabs'[p].initRuns = 1 /\ Len(Hist(p)') = 1 /\ Hist(p)'[1].op = "init"
       \/ tabs'[p].pc = "deferred" /\ tabs'[p].theme = Unset

C3_EveryClickFlips == [][\A p \in Tabs : C3_Step(p)]_vars

C3_Witness ==
  /\ Len(Hist(MainTab)) = 3
  /\ Hist(MainTab)[1].op = "click" /\ Hist(MainTab)[1].theme = "light"
  /\ Hist(MainTab)[2].op = "click" /\ Hist(MainTab)[2].theme = "dark"
  /\ Hist(MainTab)[3].op = "click" /\ Hist(MainTab)[3].theme = "light"

\* the page is in the state init left it in: no click has been handled
JustInitialized(p) ==
  /\ tabs[p].pc = "ready"
  /\ Len(Hist(p)) = 1
  /\ Hist(p)[1].op = "init"

\* C4: when the value read by init() of a fresh page load is light, init applies
\* light, with the stylesheet and the control label for light, without any click.
C4_RoundTrip ==
  \A p \in Tabs : (JustInitialized(p) /\ tabs[p].saved = "light") =>
    /\ tabs[p].theme = "light"
    /\ tabs[p].link => tabs[p].href = THEMES.light
    /\ tabs[p].btn => tabs[p].label = DarkLabel

\* light was persisted by a click of an earlier page load
C4_Witness ==
  /\ JustInitialized(MainTab)
  /\ tabs[MainTab].saved = "light"
  /\ tabs[MainTab].readFrom = "click"
  /\ tabs[MainTab].link /\ tabs[MainTab].btn
  /\ tabs[MainTab].theme = "light"

\* C5: when nothing is stored under the key, or the storage read throws, init()
\* applies dark, and no error leaves init.
C5_DefaultFallback ==
  \A p \in Tabs :
    /\ ~tabs[p].error
    /\ tabs[p].pc = "ready" => Hist(p) # << >>
    /\ (JustInitialized(p) /\ tabs[p].saved \in {Null, Threw}) =>
         /\ tabs[p].theme = "dark"
         /\ ~Hist(p)[1].exc

C5_Witness ==
  /\ JustInitialized(MainTab)
  /\ tabs[MainTab].saved = Threw
  /\ Stored = "light"
  /\ tabs[MainTab].theme = "dark"

\* C6: for every stored value that is neither dark nor light, init() applies
\* dark; an argument other than light is never applied as light; and what
\* apply() writes to the page tag and to storage is always dark or light.
C6_InvalidFallback ==
  \A p \in Tabs :
    /\ tabs[p].theme \in {Unset, "dark", "light"}
    /\ (JustInitialized(p) /\ tabs[p].saved \notin {"dark", "light"}) =>
         tabs[p].theme = "dark"
    /\ \A i \in 1..Len(Hist(p)) :
         /\ Hist(p)[i].theme \in {"dark", "light"}
         /\ Hist(p)[i].arg # "light" => Hist(p)[i].theme = "dark"
         /\ Hist(p)[i].wrote = "ok" =>
              Hist(p)[i].stored \in {"dark", "light"} /\ Hist(p)[i].stored = Hist(p)[i].theme

C6_Witness ==
  /\ JustInitialized(MainTab)
  /\ tabs[MainTab].saved = "Light"
  /\ tabs[MainTab].theme = "dark"
  /\ tabs[MainTab].wrote = "ok"
  /\ Stored = "dark"

\* what the user sees of a page
Visible(pg) == [theme |-> pg.theme, href |-> pg.href, label |-> pg.label]

\* the page apply(arg) leaves when the storage works, on a page with p's elements
WithWorkingStorage(p, arg, op) ==
  LET pg0 == [FreshPage(tabs[p].hasLink, tabs[p].hasBtn) EXCEPT
                !.link = tabs[p].link, !.btn = tabs[p].btn]
      c   == [Ctx(p) EXCEPT !.pg = pg0, !.faults = [read |-> FALSE, write |-> FALSE]]
  IN apply(c, arg, op).pg

\* C7: an apply() whose storage write throws leaves the applied tag, the
\* stylesheet reference and the control label exactly as with a working storage,
\* the next click still flips the applied preference, init still registers the
\* listener, and the failure is swallowed.
C7_WriteFailure ==
  \A p \in Tabs :
    /\ ~tabs[p].error
    /\ (tabs[p].pc = "ready" /\ tabs[p].btn) => tabs[p].listeners = 1
    /\ \A i \in 1..Len(Hist(p)) : Hist(p)[i].wrote = "threw" =>
         /\ ~Hist(p)[i].exc
         /\ Visible(Hist(p)[i]) = Visible(WithWorkingStorage(p, Hist(p)[i].arg, Hist(p)[i].op))
         /\ (i > 1 /\ Hist(p)[i].op = "click") =>
              /\ Hist(p)[i-1].theme = "dark" => Hist(p)[i].arg = "light"
              /\ Hist(p)[i-1].theme = "light" => Hist(p)[i].arg = "dark"
         /\ i = Len(Hist(p)) => Visible(tabs[p]) = Visible(Hist(p)[i])

\* every write of the page load threw: an init and two clicks
C7_Witness ==
  /\ Len(Hist(MainTab)) = 3
  /\ Hist(MainTab)[1].op = "init"
  /\ \A i \in 1..3 : Hist(MainTab)[i].wrote = "threw"
  /\ tabs[MainTab].link /\ tabs[MainTab].btn
  /\ Stored = "blue"
  /\ tabs[MainTab].theme = "dark"
  /\ tabs[MainTab].label = LightLabel
  /\ tabs[MainTab].href = THEMES.dark

\* C8: whichever of the stylesheet link and the toggle control the script
\* holds, apply() completes without error, writes the page tag, attempts the
\* storage write, updates the elements it holds and touches no other.
C8_MissingElements ==
  \A p \in Tabs : tabs[p].pc = "ready" =>
    /\ ~tabs[p].error
    /\ \A i \in 1..Len(Hist(p)) : ~Hist(p)[i].exc
    /\ tabs[p].theme \in {"dark", "light"}
    /\ tabs[p].wrote \in {"ok", "threw"}
    /\ tabs[p].link =>
         /\ tabs[p].theme = "dark" => tabs[p].href = THEMES.dark
         /\ tabs[p].theme = "light" => tabs[p].href = THEMES.light
    /\ ~tabs[p].link => tabs[p].href = FreshPage(tabs[p].hasLink, tabs[p].hasBtn).href
    /\ tabs[p].btn => LabelNamesOther(tabs[p].theme, tabs[p].label)
    /\ ~tabs[p].btn => tabs[p].label = FreshPage(tabs[p].hasLink, tabs[p].hasBtn).label

\* the toggle control is there, the stylesheet link is not
C8_Witness ==
  /\ tabs[MainTab].pc = "ready"
  /\ ~tabs[MainTab].hasLink /\ tabs[MainTab].btn
  /\ Len(Hist(MainTab)) = 2
  /\ tabs[MainTab].theme = "light"
  /\ tabs[MainTab].label = DarkLabel
  /\ tabs[MainTab].href = NoElement

\* what apply leaves behind
Outcome(c) ==
  [theme |-> c.pg.theme, href |-> c.pg.href, label |-> c.pg.label, stored |-> c.ls[THEME_KEY]]

\* C9: for every argument, from every state, apply(p) followed by apply(p)
\* leaves the same applied tag, stylesheet reference, control label and
\* persisted value as a single apply(p).
C9_Idempotent ==
  \A p \in Tabs : \A theme \in ApplyInputs : tabs[p].pc # "closed" =>
    Outcome(apply(apply(Ctx(p), theme, "call"), theme, "call"))
      = Outcome(apply(Ctx(p), theme, "call"))

\* apply(light) was called twice in a row on a dark page
C9_Witness ==
  /\ Len(Hist(MainTab)) = 3
  /\ Hist(MainTab)[1].theme = "dark"
  /\ Hist(MainTab)[2].op = "call" /\ Hist(MainTab)[2].arg = "light"
  /\ Hist(MainTab)[3].op = "call" /\ Hist(MainTab)[3].arg = "light"
  /\ Hist(MainTab)[2].wrote = "ok" /\ Hist(MainTab)[3].wrote = "ok"
  /\ Visible(Hist(MainTab)[3]) = Visible(Hist(MainTab)[2])
  /\ Stored = "light"

\* C10: init() runs at most once per page load: deferred to DOMContentLoaded
\* when the document was loading at evaluation, at once otherwise; a deferred
\* page has run no init, holds one DOMContentLoaded listener and handles no
\* click; at most one click listener is ever registered; and every apply of a
\* click comes after the apply of init.
C10_State(p) ==
  /\ tabs[p].initRuns <= 1
  /\ tabs[p].listeners <= 1
  /\ tabs[p].dcl <= 1
  /\ tabs[p].pc = "ready" <=> tabs[p].initRuns = 1
  /\ tabs[p].pc = "deferred" =>
       /\ tabs[p].readyState = "loading"
       /\ tabs[p].dcl = 1
       /\ tabs[p].listeners = 0
       /\ tabs[p].theme = Unset
       /\ Hist(p) = << >>
  /\ (tabs[p].pc = "ready" /\ tabs[p].readyState # "loading") => tabs[p].dcl = 0
  /\ (Hist(p) # << >> /\ Len(Hist(p)) < WindowLen) => Hist(p)[1].op = "init"
  /\ \A i \in 2..Len(Hist(p)) : Hist(p)[i].op = "click"

\* the script was evaluated in tab p in this step: the page changed into one that
\* waits for DOMContentLoaded, or into one init has just left and that did not wait
ScriptStep(p) ==
  /\ tabs'[p] # tabs[p]
  /\ \/ tabs'[p].pc = "deferred"
     \/ /\ JustInitialized(p)'
        /\ tabs[p].pc # "deferred" \/ tabs'[p].readyState # "loading"

C10_Step(p) ==
  /\ C10_State(p)'
  /\ DOMContentLoaded(p) => tabs'[p].pc = "ready" /\ tabs'[p].initRuns = 1
  /\ (Click(p) /\ tabs[p].initRuns = 0) => tabs'[p] = tabs[p]
  /\ ScriptStep(p) => (tabs'[p].pc = "deferred" <=> tabs'[p].readyState = "loading")

C10_InitOnce == [][\A p \in Tabs : C10_Step(p)]_vars

\* a deferred init has run, registered its listener and handled a click
C10_Witness ==
  /\ tabs[MainTab].pc = "ready"
  /\ tabs[MainTab].readyState = "loading"
  /\ tabs[MainTab].initRuns = 1
  /\ tabs[MainTab].listeners = 1
  /\ Len(Hist(MainTab)) = 2
  /\ Hist(MainTab)[2].op = "click"

\* C11 as stated: once init() has run, a toggle control that is in the page has
\* the click listener registered and its label set, and a stylesheet link that
\* is in the page has its reference rewritten, also when init was deferred and
\* the elements were parsed only after the script was evaluated.
C11_AsStated ==
  \A p \in Tabs : tabs[p].pc = "ready" =>
    /\ tabs[p].hasBtn =>
         /\ tabs[p].listeners = 1
         /\ LabelNamesOther(tabs[p].theme, tabs[p].label)
         /\ tabs[p].label # Markup
    /\ tabs[p].hasLink => tabs[p].href \in {THEMES.dark, THEMES.light}

\* init ran in tab p in this step (at page load, or at DOMContentLoaded):
\* the page changed and is as init leaves it
InitStep(p) ==
  /\ tabs'[p] # tabs[p]
  /\ JustInitialized(p)'

\* the click listener ran in tab p in this step: the page changed and the last
\* apply recorded is a click's
ClickStep(p) ==
  /\ tabs[p].pc = "ready"
  /\ tabs'[p] # tabs[p]
  /\ Hist(p)' # << >>
  /\ Hist(p)'[Len(Hist(p)')].op = "click"

\* C12 as stated: once a value is stored under the key, the stored value is
\* changed only by a user click on the toggle control, never by init().
C12_AsStated ==
  [][(Stored # Null /\ Stored' # Stored) => \E p \in Tabs : Click(p)]_vars

\* C12 amended: once dark or light is stored under the key and init() can read
\* it, the stored value is changed only by a user click: a later init() writes
\* back the value it read. An init() that read an empty or unrecognized value,
\* or whose read threw, stores dark; nothing else changes the stored value.
C12_Step ==
  /\ \A p \in Tabs : (InitStep(p) /\ tabs'[p].saved \in {"dark", "light"}) =>
       /\ Stored' = Stored
       /\ tabs'[p].theme = Stored
  /\ Stored' # Stored =>
       \E p \in Tabs :
         \/ ClickStep(p) /\ tabs'[p].wrote = "ok"
         \/ /\ InitStep(p)
            /\ tabs'[p].saved \notin {"dark", "light"}
            /\ tabs'[p].wrote = "ok"
            /\ Stored' = "dark"

C12_OnlyClicksChange == [][C12_Step]_vars

\* init has just written back the light that a click of an earlier load stored
C12_Witness ==
  /\ JustInitialized(MainTab)
  /\ tabs[MainTab].saved = "light"
  /\ tabs[MainTab].readFrom = "click"
  /\ lastWrite.op = "init"
  /\ tabs[MainTab].wrote = "ok"
  /\ Stored = "light"

\* the two stylesheets, as the page must reference them
DarklyUrl == "https://cdn.jsdelivr.net/npm/bootswatch@5.3.3/dist/darkly/bootstrap.min.css"
LuxUrl == "https://cdn.jsdelivr.net/npm/bootswatch@5.3.3/dist/lux/bootstrap.min.css"

\* C13: in every state after init(), the stylesheet link the script holds
\* references the darkly URL iff the page tag is dark and the lux URL iff the
\* tag is light; every apply() left it so, and no href is ever anything but the
\* markup's own value or one of the two URLs.
C13_LinkFollowsTag ==
  \A p \in Tabs :
    /\ tabs[p].href \in {NoElement, Markup, DarklyUrl, LuxUrl}
    /\ (tabs[p].pc = "ready" /\ tabs[p].link) =>
         /\ tabs[p].href \in {DarklyUrl, LuxUrl}
         /\ tabs[p].href = DarklyUrl <=> tabs[p].theme = "dark"
         /\ tabs[p].href = LuxUrl <=> tabs[p].theme = "light"
         /\ \A i \in 1..Len(Hist(p)) :
              /\ Hist(p)[i].href = DarklyUrl <=> Hist(p)[i].theme = "dark"
              /\ Hist(p)[i].href = LuxUrl <=> Hist(p)[i].theme = "light"

\* the link has followed the tag from dark to light and back
C13_Witness ==
  /\ tabs[MainTab].pc = "ready"
  /\ tabs[MainTab].link
  /\ Len(Hist(MainTab)) = 3
  /\ Hist(MainTab)[2].href = LuxUrl
  /\ tabs[MainTab].theme = "dark"
  /\ tabs[MainTab].href = DarklyUrl

\* an apply() ran in tab p in this step
ApplyStep(p) == InitStep(p) \/ ClickStep(p)

\* C14: an apply() whose storage write failed leaves the stored value as it
\* was while the page shows the new theme; the stored value changes only by a
\* successful write, to the preference just applied; and the init() of the next
\* page load applies the stored preference (dark when none or an unrecognized
\* one is stored, or when the read throws), with no error: the only loss is a
\* preference that is not carried across the reload.
C14_Step ==
  /\ \A p \in Tabs : (ApplyStep(p) /\ tabs'[p].wrote = "threw") =>
       /\ Stored' = Stored
       /\ tabs'[p].theme \in {"dark", "light"}
       /\ ClickStep(p) => tabs'[p].theme # tabs[p].theme
       /\ ~tabs'[p].error
  /\ Stored' # Stored =>
       \E p \in Tabs : ApplyStep(p) /\ tabs'[p].wrote = "ok" /\ Stored' = tabs'[p].theme
  /\ \A p \in Tabs : InitStep(p) =>
       /\ ~tabs'[p].error
       /\ (tabs'[p].saved # Threw /\ Stored \in {"dark", "light"}) => tabs'[p].theme = Stored
       /\ (tabs'[p].saved = Threw \/ Stored \notin {"dark", "light"}) => tabs'[p].theme = "dark"

C14_FailedWriteKeepsStored == [][C14_Step]_vars

\* the page left showed light, which its click could not persist; the new load
\* applied the dark that was persisted last
C14_Witness ==
  /\ JustInitialized(MainTab)
  /\ tabs[MainTab].lostClick
  /\ tabs[MainTab].saved = "dark"
  /\ tabs[MainTab].readFrom = "click"
  /\ tabs[MainTab].theme = "dark"

\* what C15 says of a step, but for the persisted value
C15_OwnTag ==
  \A p \in Tabs :
    /\ ClickStep(p) =>
         /\ tabs[p].theme = "dark" => tabs'[p].theme = "light"
         /\ tabs[p].theme = "light" => tabs'[p].theme = "dark"
    /\ tabs'[p] # tabs[p] => \A q \in Tabs \ {p} : tabs'[q] = tabs[q]

\* C15 as stated: with two pages on the same key, a click sets the page's tag to
\* the inverse of that page's own tag, no page changes the other's tag, and the
\* persisted value is always the preference of whichever page applied last.
C15_AsStated ==
  [][/\ C15_OwnTag
     /\ \A p \in Tabs : ApplyStep(p) => Stored' = tabs'[p].theme]_vars

\* C15 amended: with two pages on the same key, a click sets the page's tag to
\* the inverse of that page's own tag whatever the other page stored, no page
\* changes the other's tag, and the persisted value is always the preference
\* applied by the page whose storage write succeeded last: an apply whose write
\* throws leaves it as it was.
C15_Step ==
  /\ C15_OwnTag
  /\ \A p \in Tabs :
       /\ (ApplyStep(p) /\ tabs'[p].wrote = "ok") =>
            Stored' = tabs'[p].theme /\ lastWrite'.tab = p
       /\ (ApplyStep(p) /\ tabs'[p].wrote = "threw") =>
            Stored' = Stored /\ lastWrite' = lastWrite
  /\ Stored' # Stored => \E p \in Tabs : ApplyStep(p) /\ tabs'[p].wrote = "ok"
  /\ (lastWrite'.tab \in Tabs /\ tabs'[lastWrite'.tab].wrote = "ok") =>
       Stored' = tabs'[lastWrite'.tab].theme

C15_TwoTabs == [][C15_Step]_vars

\* tabB stored light by a click; then the click in tabA took tabA from its own
\* dark to light, and tabA is the last writer
C15_Witness ==
  /\ Len(Hist("tabA")) = 2 /\ Len(Hist("tabB")) = 2
  /\ tabs["tabB"].saved = "dark" /\ tabs["tabB"].readFrom = "init"
  /\ Hist("tabB")[2].op = "click" /\ Hist("tabB")[2].wrote = "ok"
  /\ Hist("tabB")[2].theme = "light"
  /\ Hist("tabA")[1].theme = "dark"
  /\ Hist("tabA")[2].op = "click" /\ Hist("tabA")[2].theme = "light"
  /\ lastWrite = [tab |-> "tabA", op |-> "click"]
  /\ Stored = "light"

====
